---- MODULE Spec2Model ----
(***************************************************************************)
(* Tool dispatch layer of ollama-rs (src/generation/tools/mod.rs):         *)
(* the typed ToolHolder with its payload normalizer, the DynamicToolHolder *)
(* and the ToolInfo descriptor with its serde (de)serialization.           *)
(***************************************************************************)
EXTENDS Integers, Sequences, FiniteSets, TLC

VARIABLES pc, holder, raw, param_value, invoked, handled, tool_ret, result,
          calls, dyn_calls, descriptor, wire, parsed

vars == <<pc, holder, raw, param_value, invoked, handled, tool_ret, result,
          calls, dyn_calls, descriptor, wire, parsed>>

dispatchVars == <<pc, holder, raw, param_value, invoked, handled, tool_ret,
                  result, calls, dyn_calls>>

descriptorVars == <<descriptor, wire, parsed>>

---------------------------------------------------------------------------
(* Bounds *)

\* number of ToolHolder::call dispatches explored
MaxCalls == 2

\* number of distinct city strings in the payload universe
NumCities == 2

---------------------------------------------------------------------------
(* serde_json::Value, as a tagged record (the tag k is compared first) *)

JNull == [k |-> "null", v |-> "null"]

JBool(b) == [k |-> "bool", v |-> b]

JNum(n) == [k |-> "num", v |-> n]

JStr(s) == [k |-> "str", v |-> s]

JArr(a) == [k |-> "arr", v |-> a]

JObj(f) == [k |-> "obj", v |-> f]

EmptyMap == [key \in {} |-> JNull]

\* Option<T>
None == <<>>

Some(x) == <<x>>

\* std::result::Result as produced by the serde decoders
Ok(x) == [ok |-> TRUE, val |-> x]

Err(e) == [ok |-> FALSE, val |-> e]

\* Result<String> of a tool call: Ok(string) or a boxed error with its origin
OkString(s) == [ok |-> TRUE, src |-> "tool", val |-> s]

ToolError(e) == [ok |-> FALSE, src |-> "tool", val |-> e]

DecodeError(e) == [ok |-> FALSE, src |-> "serde_json", val |-> e]

---------------------------------------------------------------------------
(* serde decoders *)

\* name: String
DecodeString(j) ==
    IF j.k = "str" THEN Ok(j.v) ELSE Err("invalid type, expected a string")

\* parameters: Schema -- a schemars Schema wraps a JSON object or boolean
DecodeSchema(j) ==
    IF j.k \in {"obj", "bool"} THEN Ok(j)
    ELSE Err("invalid type, expected object or boolean")

\* Schema::to_value
SchemaToValue(s) == s

\* ToolCallFunction without the serde alias: only arguments is accepted
DecodeToolCallFunction_NoAlias(j) ==
    IF j.k = "obj" THEN
        LET o == j.v IN
        IF "name" \in DOMAIN o /\ ~DecodeString(o["name"]).ok
            THEN Err("name: invalid type")
        ELSE IF "name" \notin DOMAIN o THEN Err("missing field name")
        ELSE IF "arguments" \notin DOMAIN o THEN Err("missing field arguments")
        ELSE Ok([name |-> o["name"].v, arguments |-> o["arguments"]])
    ELSE Err("invalid type, expected struct ToolCallFunction")

\* ToolCallFunction as if declared with deny_unknown_fields
DecodeToolCallFunction_DenyUnknown(j) ==
    IF j.k = "obj" THEN
        LET o == j.v
            hasA == "arguments" \in DOMAIN o
            hasP == "parameters" \in DOMAIN o
        IN
        IF "name" \in DOMAIN o /\ ~DecodeString(o["name"]).ok
            THEN Err("name: invalid type")
        ELSE IF hasA /\ hasP THEN Err("duplicate field arguments")
        ELSE IF ~(DOMAIN o \subseteq {"name", "arguments", "parameters"})
            THEN Err("unknown field")
        ELSE IF "name" \notin DOMAIN o THEN Err("missing field name")
        ELSE IF ~hasA /\ ~hasP THEN Err("missing field arguments")
        ELSE Ok([name |-> o["name"].v,
                 arguments |-> IF hasA THEN o["arguments"] ELSE o["parameters"]])
    ELSE IF j.k = "arr" THEN
        IF Len(j.v) = 2 /\ DecodeString(j.v[1]).ok
            THEN Ok([name |-> j.v[1].v, arguments |-> j.v[2]])
            ELSE Err("invalid sequence for struct ToolCallFunction")
    ELSE Err("invalid type, expected struct ToolCallFunction")

\* #[derive(Deserialize)] struct ToolCallFunction { name: String,
\*   #[serde(alias = "parameters")] arguments: Value }
\* decoded from a Value: a map (unknown keys ignored, both spellings of the
\* arguments key together are a duplicate field) or a 2-element sequence.
DecodeToolCallFunction(j) ==
    IF j.k = "obj" THEN
        LET o == j.v
            hasA == "arguments" \in DOMAIN o
            hasP == "parameters" \in DOMAIN o
        IN
        IF "name" \in DOMAIN o /\ ~DecodeString(o["name"]).ok
            THEN Err("name: invalid type")
        ELSE IF hasA /\ hasP THEN Err("duplicate field arguments")
        ELSE IF "name" \notin DOMAIN o THEN Err("missing field name")
        ELSE IF ~hasA /\ ~hasP THEN Err("missing field arguments")
        ELSE Ok([name |-> o["name"].v,
                 arguments |-> IF hasA THEN o["arguments"] ELSE o["parameters"]])
    ELSE IF j.k = "arr" THEN
        IF Len(j.v) = 2 /\ DecodeString(j.v[1]).ok
            THEN Ok([name |-> j.v[1].v, arguments |-> j.v[2]])
            ELSE Err("invalid sequence for struct ToolCallFunction")
    ELSE Err("invalid type, expected struct ToolCallFunction")

\* #[serde(rename_all = "lowercase")] enum ToolType { Function }
\* decoded from a Value: the string "function", or a single-key map
\* {"function": null} (unit variant).
DecodeToolType(j) ==
    IF j.k = "str" THEN
        IF j.v = "function" THEN Ok("Function") ELSE Err("unknown variant")
    ELSE IF j.k = "obj" THEN
        IF DOMAIN j.v = {"function"} /\ j.v["function"].k = "null"
            THEN Ok("Function")
            ELSE Err("invalid enum map")
    ELSE Err("invalid type, expected string or map")

\* #[derive(Deserialize)] struct ToolFunctionInfo { name, description, parameters }
DecodeToolFunctionInfo(j) ==
    IF j.k = "obj" THEN
        LET o == j.v IN
        IF /\ {"name", "description", "parameters"} \subseteq DOMAIN o
           /\ DecodeString(o["name"]).ok
           /\ DecodeString(o["description"]).ok
           /\ DecodeSchema(o["parameters"]).ok
        THEN Ok([name |-> o["name"].v,
                 description |-> o["description"].v,
                 parameters |-> DecodeSchema(o["parameters"]).val])
        ELSE Err("invalid map for struct ToolFunctionInfo")
    ELSE IF j.k = "arr" THEN
        IF /\ Len(j.v) = 3
           /\ DecodeString(j.v[1]).ok
           /\ DecodeString(j.v[2]).ok
           /\ DecodeSchema(j.v[3]).ok
        THEN Ok([name |-> j.v[1].v,
                 description |-> j.v[2].v,
                 parameters |-> DecodeSchema(j.v[3]).val])
        ELSE Err("invalid sequence for struct ToolFunctionInfo")
    ELSE Err("invalid type, expected struct ToolFunctionInfo")

\* #[derive(Deserialize)] struct ToolInfo { #[serde(rename = "type")] tool_type, function }
DecodeToolInfo(j) ==
    IF j.k = "obj" THEN
        LET o == j.v IN
        IF /\ {"type", "function"} \subseteq DOMAIN o
           /\ DecodeToolType(o["type"]).ok
           /\ DecodeToolFunctionInfo(o["function"]).ok
        THEN Ok([tool_type |-> DecodeToolType(o["type"]).val,
                 function |-> DecodeToolFunctionInfo(o["function"]).val])
        ELSE Err("invalid map for struct ToolInfo")
    ELSE IF j.k = "arr" THEN
        IF /\ Len(j.v) = 2
           /\ DecodeToolType(j.v[1]).ok
           /\ DecodeToolFunctionInfo(j.v[2]).ok
        THEN Ok([tool_type |-> DecodeToolType(j.v[1]).val,
                 function |-> DecodeToolFunctionInfo(j.v[2]).val])
        ELSE Err("invalid sequence for struct ToolInfo")
    ELSE Err("invalid type, expected struct ToolInfo")

\* Tool::Params of the tool under dispatch: struct { city: String }
DecodeParams(j) ==
    IF j.k = "obj" THEN
        IF "city" \in DOMAIN j.v /\ DecodeString(j.v["city"]).ok
            THEN Ok([city |-> j.v["city"].v])
            ELSE Err("invalid map for Params")
    ELSE IF j.k = "arr" THEN
        IF Len(j.v) = 1 /\ DecodeString(j.v[1]).ok
            THEN Ok([city |-> j.v[1].v])
            ELSE Err("invalid sequence for Params")
    ELSE Err("invalid type, expected struct Params")

---------------------------------------------------------------------------
(* Descriptor serialization *)

\* ToolType serialized under its Rust variant name (no rename_all)
SerializeToolType_Capitalised(t) == JStr(t)

\* #[serde(rename_all = "lowercase")] enum ToolType { Function }
SerializeToolType(t) == IF t = "Function" THEN JStr("function") ELSE JStr(t)

\* #[derive(Serialize)] struct ToolFunctionInfo
SerializeToolFunctionInfo(f) ==
    JObj(("name" :> JStr(f.name)) @@ ("description" :> JStr(f.description))
         @@ ("parameters" :> SchemaToValue(f.parameters)))

\* #[derive(Serialize)] struct ToolInfo, tool_type renamed to "type"
SerializeToolInfo(ti) ==
    JObj(("type" :> SerializeToolType(ti.tool_type))
         @@ ("function" :> SerializeToolFunctionInfo(ti.function)))

\* ToolFunctionInfo::from_dynamic
ToolFunctionInfoFromDynamic(name, description, parameters) ==
    [name |-> name, description |-> description, parameters |-> parameters]

\* ToolInfo::from_dynamic
ToolInfoFromDynamic(name, description, parameters) ==
    [tool_type |-> "Function",
     function |-> ToolFunctionInfoFromDynamic(name, description, parameters)]

---------------------------------------------------------------------------
(* The normalizer of the typed ToolHolder::call *)

\* the envelope interpretation is tried before the ToolCallFunction one
Normalize_EnvelopeFirst(parameters) ==
    IF DecodeToolInfo(parameters).ok
        THEN SchemaToValue(DecodeToolInfo(parameters).val.function.parameters)
    ELSE IF DecodeToolCallFunction(parameters).ok
        THEN DecodeToolCallFunction(parameters).val.arguments
    ELSE parameters

\* the envelope interpretation is missing
Normalize_NoEnvelope(parameters) ==
    IF DecodeToolCallFunction(parameters).ok
        THEN DecodeToolCallFunction(parameters).val.arguments
    ELSE parameters

\* the fallback yields null instead of the raw value
Normalize_NullFallback(parameters) ==
    IF DecodeToolCallFunction(parameters).ok
        THEN DecodeToolCallFunction(parameters).val.arguments
    ELSE IF DecodeToolInfo(parameters).ok
        THEN SchemaToValue(DecodeToolInfo(parameters).val.function.parameters)
    ELSE JNull

\* let param_value = match serde_json::from_value(parameters.clone()) { .. }
Normalize(parameters) ==
    IF DecodeToolCallFunction(parameters).ok
        THEN DecodeToolCallFunction(parameters).val.arguments
    ELSE IF DecodeToolInfo(parameters).ok
        THEN SchemaToValue(DecodeToolInfo(parameters).val.function.parameters)
    ELSE parameters

---------------------------------------------------------------------------
(* Payloads a model server may send, and tool behaviour *)

CityNames == <<"Tokyo", "Paris", "Oslo", "Lima">>

Cities == {CityNames[i] : i \in 1..NumCities}

\* JSON values found in the arguments position of a tool call
ArgValues ==
    {JNull, JBool(TRUE), JNum(1), JStr(CityNames[1]), JObj(EmptyMap),
     JArr(<<JStr(CityNames[1])>>),
     JObj("city" :> JNum(1)),
     JObj("query" :> JStr("rust ownership")),
     JObj(("name" :> JStr("inner"))
          @@ ("arguments" :> JObj("city" :> JStr(CityNames[1]))))}
    \cup {JObj("city" :> JStr(c)) : c \in Cities}

OptArg == {None} \cup {Some(x) : x \in ArgValues}

Field(key, opt) == IF Len(opt) = 0 THEN EmptyMap ELSE key :> opt[1]

\* values found under "function" in an envelope
FunctionValues ==
    {JObj(("name" :> JStr("get_weather"))
          @@ ("description" :> JStr("Get the weather in a given city"))
          @@ ("parameters" :> x)) : x \in ArgValues}
    \cup {JObj(("name" :> JStr("get_weather")) @@ ("parameters" :> x)) :
             x \in {JObj("city" :> JStr(CityNames[1]))}}
    \cup {JStr("get_weather"),
          JArr(<<JStr("get_weather"), JStr("d"), JObj("city" :> JStr(CityNames[1]))>>)}

TypeValues == {JStr("function"), JStr("Function"), JObj("function" :> JNull)}

NameValues == {JStr("get_weather"), JStr(""), JNum(1)}

ExtraValues == {JStr("call_0")}

Opt(S) == {None} \cup {Some(x) : x \in S}

\* {name?, arguments?, parameters?, id?}
CallShaped ==
    {JObj(Field("name", n) @@ Field("arguments", a) @@ Field("parameters", p)
          @@ Field("id", e)) :
        n \in Opt(NameValues), a \in OptArg, p \in OptArg, e \in Opt(ExtraValues)}

\* {type?, function?, name?, arguments?, id?}
EnvelopeShaped ==
    {JObj(Field("type", t) @@ Field("function", f) @@ Field("name", n)
          @@ Field("arguments", a) @@ Field("id", e)) :
        t \in Opt(TypeValues), f \in Opt(FunctionValues),
        n \in Opt({JStr("get_weather")}),
        a \in Opt({JObj("city" :> JStr(CityNames[NumCities]))}),
        e \in Opt(ExtraValues)}

SequenceShaped ==
    {JArr(<<JStr("get_weather"), x>>) : x \in ArgValues}
    \cup {JArr(<<JStr("function"), f>>) : f \in FunctionValues}
    \cup {JArr(<<>>), JArr(<<JStr("get_weather")>>),
          JArr(<<JNum(1), JObj("city" :> JStr(CityNames[1]))>>)}

RawPayloads == CallShaped \cup EnvelopeShaped \cup SequenceShaped \cup ArgValues

\* what Tool::call / the dynamic handler may return
ToolOutcomes ==
    {OkString("sunny"), OkString(""), ToolError("service unavailable")}

---------------------------------------------------------------------------
(* ToolHolder::call for T: Tool *)

\* T::call is entered even when the parameters did not decode
TypedInvocations_AlwaysCall(d) ==
    IF d.ok THEN <<d.val>> ELSE <<[city |-> ""]>>

\* T::call is entered twice
TypedInvocations_Twice(d) == IF d.ok THEN <<d.val, d.val>> ELSE <<>>

\* let param = serde_json::from_value(param_value)?; T::call(self, param)
\* the sequence of T::call invocations one dispatch makes
TypedInvocations(d) == IF d.ok THEN <<d.val>> ELSE <<>>

\* a tool error is turned into a model-visible string
HolderReturn_ErrorAsString(out) ==
    IF out.ok THEN out ELSE OkString(out.val)

\* T::call(self, param).await as the tail expression of the async block
HolderReturn(out) == out

\* the handler receives the normalized payload
DynamicForward_Normalized(parameters) == Normalize(parameters)

\* (self.handler)(parameters)
DynamicForward(parameters) == parameters

---------------------------------------------------------------------------
(* Descriptor inputs *)

\* generator.into_root_schema_for::<P>() for P = { city: String },
\* draft-07 with inlined subschemas
RootSchemaForParams ==
    JObj(("$schema" :> JStr("http://json-schema.org/draft-07/schema#"))
         @@ ("type" :> JStr("object"))
         @@ ("properties" :> JObj("city" :> JObj("type" :> JStr("string"))))
         @@ ("required" :> JArr(<<JStr("city")>>)))

\* ToolInfo::new::<P, T>() for the get_weather tool
ToolInfoNew ==
    [tool_type |-> "Function",
     function |-> [name |-> "get_weather",
                   description |-> "Get the weather in a given city",
                   parameters |-> RootSchemaForParams]]

\* caller-supplied arguments of ToolInfo::from_dynamic; a Schema is a JSON
\* object or boolean
DynamicNames == {"search", "get_weather", ""}

DynamicDescriptions == {"Web search", ""}

DynamicSchemas ==
    {JBool(TRUE), JBool(FALSE), JObj(EmptyMap), JObj("type" :> JStr("object")),
     JObj(("type" :> JStr("object"))
          @@ ("properties" :> JObj("query" :> JObj("type" :> JStr("string"))))),
     RootSchemaForParams}

---------------------------------------------------------------------------
(* State machine *)

Init ==
    /\ pc = "idle"
    /\ holder = "none"
    /\ raw = None
    /\ param_value = None
    /\ invoked = <<>>
    /\ handled = <<>>
    /\ tool_ret = None
    /\ result = None
    /\ calls = 0
    /\ dyn_calls = 0
    /\ descriptor = None
    /\ wire = None
    /\ parsed = None

\* ToolHolder::call for T: Tool, polled up to the await on T::call:
\* normalize, decode, and either fail with the decode error or enter T::call
TypedCall(parameters) ==
    /\ pc = "idle"
    /\ calls + dyn_calls < MaxCalls
    /\ LET pv == Normalize(parameters)
           d  == DecodeParams(pv)
       IN
       /\ holder' = "typed"
       /\ raw' = Some(parameters)
       /\ param_value' = Some(pv)
       /\ invoked' = TypedInvocations(d)
       /\ calls' = calls + Len(invoked')
       /\ IF Len(invoked') > 0
            THEN pc' = "awaiting" /\ result' = None
            ELSE pc' = "done" /\ result' = Some(DecodeError(d.val))
    /\ UNCHANGED <<handled, tool_ret, dyn_calls>>
    /\ UNCHANGED descriptorVars

\* T::call completes; its Result<String> is the value of the async block
ToolReturn(out) ==
    /\ pc = "awaiting"
    /\ holder = "typed"
    /\ tool_ret' = Some(out)
    /\ result' = Some(HolderReturn(out))
    /\ pc' = "done"
    /\ UNCHANGED <<holder, raw, param_value, invoked, handled, calls, dyn_calls>>
    /\ UNCHANGED descriptorVars

\* ToolHolder::call for DynamicToolHolder: the handler is called with the
\* payload and its future is boxed
DynamicCall(parameters) ==
    /\ pc = "idle"
    /\ calls + dyn_calls < MaxCalls
    /\ holder' = "dynamic"
    /\ raw' = Some(parameters)
    /\ handled' = <<DynamicForward(parameters)>>
    /\ dyn_calls' = dyn_calls + 1
    /\ pc' = "awaiting"
    /\ UNCHANGED <<param_value, invoked, tool_ret, result, calls>>
    /\ UNCHANGED descriptorVars

\* the handler's future completes; the boxed future yields the same value
HandlerReturn(out) ==
    /\ pc = "awaiting"
    /\ holder = "dynamic"
    /\ tool_ret' = Some(out)
    /\ result' = Some(out)
    /\ pc' = "done"
    /\ UNCHANGED <<holder, raw, param_value, invoked, handled, calls, dyn_calls>>
    /\ UNCHANGED descriptorVars

\* the caller consumes the completed future; the tool keeps its own state
TakeResult ==
    /\ pc = "done"
    /\ pc' = "idle"
    /\ holder' = "none"
    /\ raw' = None
    /\ param_value' = None
    /\ invoked' = <<>>
    /\ handled' = <<>>
    /\ tool_ret' = None
    /\ result' = None
    /\ UNCHANGED <<calls, dyn_calls>>
    /\ UNCHANGED descriptorVars

Next ==
    \/ \E parameters \in RawPayloads : TypedCall(parameters)
    \/ \E out \in ToolOutcomes : ToolReturn(out)
    \/ \E parameters \in RawPayloads : DynamicCall(parameters)
    \/ \E out \in ToolOutcomes : HandlerReturn(out)
    \/ TakeResult

Spec == Init /\ [][Next]_vars

\* ToolInfo::new
New ==
    /\ descriptor = None
    /\ descriptor' = Some(ToolInfoNew)
    /\ UNCHANGED <<wire, parsed>>
    /\ UNCHANGED dispatchVars

\* ToolInfo::from_dynamic
FromDynamic(name, description, parameters) ==
    /\ descriptor = None
    /\ descriptor' = Some(ToolInfoFromDynamic(name, description, parameters))
    /\ UNCHANGED <<wire, parsed>>
    /\ UNCHANGED dispatchVars

\* serde_json::to_value(&tool_info)
Serialize ==
    /\ descriptor # None
    /\ wire = None
    /\ wire' = Some(SerializeToolInfo(descriptor[1]))
    /\ UNCHANGED <<descriptor, parsed>>
    /\ UNCHANGED dispatchVars

\* serde_json::from_value::<ToolInfo>(json)
Deserialize ==
    /\ wire # None
    /\ parsed = None
    /\ parsed' = Some(DecodeToolInfo(wire[1]))
    /\ UNCHANGED <<descriptor, wire>>
    /\ UNCHANGED dispatchVars

NextDescriptor ==
    \/ New
    \/ \E name \in DynamicNames, description \in DynamicDescriptions,
          parameters \in DynamicSchemas : FromDynamic(name, description, parameters)
    \/ Serialize
    \/ Deserialize

SpecDescriptor == Init /\ [][NextDescriptor]_vars

---------------------------------------------------------------------------
(* Properties *)

TypedDispatch == holder = "typed"

DynamicDispatch == holder = "dynamic"

HasStringName(r) ==
    r.k = "obj" /\ "name" \in DOMAIN r.v /\ r.v["name"].k = "str"

\* {name: string, arguments: X, ...}
ArgumentsShape(r) == HasStringName(r) /\ "arguments" \in DOMAIN r.v

\* {name: string, parameters: X, ...} without an arguments key
AliasShape(r) ==
    HasStringName(r) /\ "parameters" \in DOMAIN r.v /\ "arguments" \notin DOMAIN r.v

\* the alias payload with its parameters key spelled arguments
ArgumentsForm(r) ==
    JObj([key \in (DOMAIN r.v \ {"parameters"}) \cup {"arguments"} |->
            IF key = "arguments" THEN r.v["parameters"] ELSE r.v[key]])

\* {type: "function", function: {name, description, parameters: X}}, no top-level name
EnvelopeShape(r) ==
    /\ r.k = "obj"
    /\ "name" \notin DOMAIN r.v
    /\ "type" \in DOMAIN r.v
    /\ r.v["type"] = JStr("function")
    /\ "function" \in DOMAIN r.v
    /\ r.v["function"].k = "obj"
    /\ {"name", "description", "parameters"} \subseteq DOMAIN r.v["function"].v
    /\ r.v["function"].v["name"].k = "str"
    /\ r.v["function"].v["description"].k = "str"

EnvelopeArgs(r) == r.v["function"].v["parameters"]

\* C1 as stated: every {name: string, arguments: X} object, whatever other
\* keys it carries, is normalized to exactly X.
C1_AnyExtraKeys ==
    (TypedDispatch /\ ArgumentsShape(raw[1]))
        => param_value = Some(raw[1].v["arguments"])

\* C1 amended: a {name: string, arguments: X} object that does not also carry
\* a parameters key (other extra keys allowed) is normalized to exactly X.
C1_ArgumentsYieldX ==
    (TypedDispatch /\ ArgumentsShape(raw[1]) /\ "parameters" \notin DOMAIN raw[1].v)
        => param_value = Some(raw[1].v["arguments"])

C1_Witness ==
    /\ TypedDispatch
    /\ ArgumentsShape(raw[1])
    /\ "id" \in DOMAIN raw[1].v
    /\ "parameters" \notin DOMAIN raw[1].v
    /\ raw[1].v["arguments"] = JObj("city" :> JStr("Tokyo"))
    /\ param_value = Some(JObj("city" :> JStr("Tokyo")))

\* C2 alias equivalence: {name, parameters: X} is normalized to exactly X and
\* its dispatch decodes, invokes the tool and completes exactly as the
\* dispatch of {name, arguments: X} does.
C2_AliasEquivalence ==
    (TypedDispatch /\ AliasShape(raw[1])) =>
        LET other == ArgumentsForm(raw[1])
            d == DecodeParams(Normalize(other))
        IN
        /\ param_value = Some(raw[1].v["parameters"])
        /\ param_value = Some(Normalize(other))
        /\ invoked = TypedInvocations(d)
        /\ (pc = "awaiting") => d.ok
        /\ (pc = "done" /\ ~d.ok) => result = Some(DecodeError(d.val))
        /\ (pc = "done" /\ d.ok) => result = Some(HolderReturn(tool_ret[1]))

C2_Witness ==
    /\ TypedDispatch
    /\ raw = Some(JObj(("name" :> JStr("get_weather"))
                       @@ ("parameters" :> JObj("city" :> JStr("Tokyo")))))
    /\ invoked = <<[city |-> "Tokyo"]>>
    /\ result = Some(OkString("sunny"))

\* C3 as stated: an envelope is normalized to function.parameters for every
\* JSON value X found there.
C3_AnyValue ==
    (TypedDispatch /\ EnvelopeShape(raw[1]))
        => param_value = Some(EnvelopeArgs(raw[1]))

\* C3 amended: an envelope whose function.parameters is a JSON object or a
\* boolean X (the values a schema document can hold) is normalized to
\* exactly X.
C3_EnvelopeYieldsX ==
    (TypedDispatch /\ EnvelopeShape(raw[1])
        /\ EnvelopeArgs(raw[1]).k \in {"obj", "bool"})
        => param_value = Some(EnvelopeArgs(raw[1]))

C3_Witness ==
    /\ TypedDispatch
    /\ EnvelopeShape(raw[1])
    /\ EnvelopeArgs(raw[1]) = JObj("city" :> JStr("Tokyo"))
    /\ param_value = Some(JObj("city" :> JStr("Tokyo")))
    /\ invoked = <<[city |-> "Tokyo"]>>

\* C4 identity fallback: a payload that decodes neither as ToolCallFunction
\* nor as ToolInfo reaches the parameter decoder unchanged, and the only
\* error the dispatch can then report before the tool runs is that decoder's.
C4_IdentityFallback ==
    (TypedDispatch /\ ~DecodeToolCallFunction(raw[1]).ok
        /\ ~DecodeToolInfo(raw[1]).ok) =>
        /\ param_value = raw
        /\ invoked = TypedInvocations(DecodeParams(raw[1]))
        /\ (pc = "done" /\ invoked = <<>>)
              => result = Some(DecodeError(DecodeParams(raw[1]).val))

C4_Witness ==
    /\ TypedDispatch
    /\ raw = Some(JObj("city" :> JStr("Tokyo")))
    /\ param_value = raw
    /\ invoked = <<[city |-> "Tokyo"]>>

\* C5: when the normalized payload decodes, the tool is called exactly once,
\* with the decoded value, and the dispatch returns the tool's result
\* unchanged.
C5_CalledOnce ==
    (TypedDispatch /\ DecodeParams(param_value[1]).ok) =>
        /\ invoked = <<DecodeParams(param_value[1]).val>>
        /\ pc = "done" => (tool_ret # None /\ result = tool_ret)

C5_Witness ==
    /\ TypedDispatch
    /\ pc = "done"
    /\ Len(invoked) = 1
    /\ tool_ret = Some(OkString("sunny"))
    /\ result = Some(OkString("sunny"))

\* C6: a dispatch whose normalized payload does not decode never enters the
\* tool's call, leaves the tool's state as it was, and completes with the
\* decode error.
C6_DecodeFailure ==
    [][(holder' = "typed" /\ ~DecodeParams(param_value'[1]).ok) =>
          /\ invoked' = <<>>
          /\ calls' = calls
          /\ tool_ret' = None
          /\ pc' = "done"
          /\ result' = Some(DecodeError(DecodeParams(param_value'[1]).val))]_vars

C6_Witness ==
    /\ TypedDispatch
    /\ pc = "done"
    /\ ~DecodeParams(param_value[1]).ok
    /\ invoked = <<>>
    /\ ~result[1].ok
    /\ result[1].src = "serde_json"

\* C7: when the tool's call returns an error the dispatch completes with
\* that same error, never with a string, and the tool was called only once.
C7_ToolErrorPropagates ==
    (TypedDispatch /\ pc = "done" /\ tool_ret # None /\ ~tool_ret[1].ok) =>
        /\ result = tool_ret
        /\ ~result[1].ok
        /\ Len(invoked) = 1

C7_Witness ==
    /\ TypedDispatch
    /\ pc = "done"
    /\ tool_ret = Some(ToolError("service unavailable"))
    /\ result = Some(ToolError("service unavailable"))

\* C8 as stated: the dynamic handler receives the normalized payload a typed
\* tool's decoder would receive.
C8_HandlerGetsNormalized ==
    DynamicDispatch => handled = <<Normalize(raw[1])>>

\* C8 amended: DynamicToolHolder::call does not normalize; the handler is
\* called exactly once with the raw payload itself (which is what the typed
\* normalizer would yield only when the payload decodes as neither shape),
\* and its result is returned unchanged.
C8_HandlerGetsRaw ==
    DynamicDispatch =>
        /\ handled = <<raw[1]>>
        /\ (~DecodeToolCallFunction(raw[1]).ok /\ ~DecodeToolInfo(raw[1]).ok)
              => handled = <<Normalize(raw[1])>>
        /\ pc = "done" => (tool_ret # None /\ result = tool_ret)

C8_Witness ==
    /\ DynamicDispatch
    /\ pc = "done"
    /\ raw = Some(JObj(("name" :> JStr("get_weather"))
                       @@ ("arguments" :> JObj("query" :> JStr("rust ownership")))))
    /\ handled = <<raw[1]>>
    /\ result = Some(OkString("sunny"))

\* C9: a descriptor from ToolInfo::new or ToolInfo::from_dynamic serializes
\* to {type: "function", function: {name, description, parameters}} with the
\* supplied values, and parsing that JSON back gives the same descriptor.
C9_DescriptorRoundTrip ==
    /\ wire # None =>
          wire[1] = JObj(("type" :> JStr("function"))
                         @@ ("function" :>
                               JObj(("name" :> JStr(descriptor[1].function.name))
                                    @@ ("description" :>
                                          JStr(descriptor[1].function.description))
                                    @@ ("parameters" :>
                                          descriptor[1].function.parameters))))
    /\ parsed # None => parsed[1] = Ok(descriptor[1])

C9_Witness ==
    /\ parsed # None
    /\ parsed[1].ok
    /\ parsed[1].val.function.name = "search"
    /\ parsed[1].val.function.description = "Web search"
    /\ parsed[1].val.function.parameters.k = "obj"
    /\ wire[1].v["type"] = JStr("function")

\* the value under the top-level arguments (or parameters) position
TopLevelArgs(r) ==
    IF r.k = "arr" THEN r.v[2]
    ELSE IF "arguments" \in DOMAIN r.v THEN r.v["arguments"]
    ELSE r.v["parameters"]

\* C10: first success wins, in order. A payload decoding both as
\* ToolCallFunction and as ToolInfo yields its top-level arguments; the
\* envelope's function.parameters is used only when the ToolCallFunction
\* decode fails, and the raw value only when both fail.
C10_FirstSuccessWins ==
    TypedDispatch =>
        LET r == raw[1]
            tcf == DecodeToolCallFunction(r).ok
            ti == DecodeToolInfo(r).ok
        IN
        /\ tcf => param_value = Some(TopLevelArgs(r))
        /\ (~tcf /\ ti) =>
              param_value = Some(DecodeToolInfo(r).val.function.parameters)
        /\ (~tcf /\ ~ti) => param_value = raw

C10_Witness ==
    /\ TypedDispatch
    /\ raw[1].k = "obj"
    /\ DecodeToolCallFunction(raw[1]).ok
    /\ DecodeToolInfo(raw[1]).ok
    /\ "arguments" \in DOMAIN raw[1].v
    /\ raw[1].v["function"].k = "obj"
    /\ param_value = Some(raw[1].v["arguments"])
    /\ param_value # Some(raw[1].v["function"].v["parameters"])

====
